---- MODULE Spec2Model ----
(***************************************************************************)
(* Model of bevy_ui_borders: border and outline geometry recompute         *)
(* (calculate_borders, calculate_outlines), thickness resolution           *)
(* (resolve_thickness) and the two extraction passes                       *)
(* (extract_uinode_borders, extract_uinode_outlines), driven by a frame    *)
(* schedule Update -> PostUpdate -> Extract.                               *)
(*                                                                         *)
(* Lengths are f32 in the source.  The model keeps them exact: a length    *)
(* is an integer number of 1/Unit pixels, where Unit makes both the        *)
(* halving of a size (0.5 * size) and the percentage (w * p / 100) exact.  *)
(* Option<T> is a set with at most one element: None is {} and Some(x) is  *)
(* {x}.  Vec2 is a pair <<x, y>>.                                          *)
(***************************************************************************)
EXTENDS Integers, Sequences, FiniteSets, TLC

\* ------------------------------------------------------------------ bounds
\* Largest node width/height, in pixels, of the geometry domain.
MaxSize == 2
\* Largest fixed thickness Val::Px, in pixels, of the geometry domain.
MaxPx == 2
\* Number of external changes (layout or application) in one behaviour.
MaxChanges == 1

\* ------------------------------------------------------------- value types
\* One pixel, in model length units.
Unit == 2 * 100

Entities == {1, 2, 3}

\* bevy::ui::Val as the source matches on it.
Px(v) == [kind |-> "Px", v |-> v]
Percent(p) == [kind |-> "Percent", v |-> p]
Undefined == [kind |-> "Undefined", v |-> 0]
Auto == [kind |-> "Auto", v |-> 0]

\* bevy::ui::UiRect and its constructors used by the examples.
UiRect(l, r, t, b) == [left |-> l, right |-> r, top |-> t, bottom |-> b]
UiRectAll(v) == UiRect(v, v, v, v)
UiRectDefault == UiRectAll(Undefined)

EdgeNames == <<"left", "right", "top", "bottom">>

\* bevy::math::Rect
Rect(mn, mx) == [min |-> mn, max |-> mx]
RectCenter(r) == <<(r.min[1] + r.max[1]) \div 2, (r.min[2] + r.max[2]) \div 2>>
RectSize(r) == <<r.max[1] - r.min[1], r.max[2] - r.min[2]>>

Max2(a, b) == IF a >= b THEN a ELSE b
Min2(a, b) == IF a <= b THEN a ELSE b
Vec2Add(a, b) == <<a[1] + b[1], a[2] + b[2]>>
Vec2Sub(a, b) == <<a[1] - b[1], a[2] - b[2]>>
Vec2Neg(a) == <<0 - a[1], 0 - a[2]>>
Vec2Max(a, b) == <<Max2(a[1], b[1]), Max2(a[2], b[2])>>
Vec2Half(a) == <<a[1] \div 2, a[2] \div 2>>

NoEdges == <<{}, {}, {}, {}>>

\* --------------------------------------------------------------- the state
VARIABLES
    components,          \* entity -> set of component groups it has
    node_size,           \* entity -> Node::size() in pixels
    style_border,        \* entity -> Style::border (UiRect)
    outline,             \* entity -> Outline (UiRect)
    parent,              \* entity -> Option<Parent>
    border_color,        \* entity -> BorderColor
    outline_color,       \* entity -> OutlineColor
    visibility,          \* entity -> ComputedVisibility::is_visible()
    global_transform,    \* entity -> translation of GlobalTransform
    clip,                \* entity -> Option<CalculatedClip>
    ui_stack,            \* UiStack::uinodes
    calculated_border,   \* entity -> CalculatedBorder::edges
    calculated_outline,  \* entity -> CalculatedOutline::edges
    extracted_uinodes,   \* ExtractedUiNodes::uinodes
    changed_borders,     \* entities with Changed<Node|Style|Parent> as calculate_borders sees it
    changed_outlines,    \* entities with Changed<Node|Outline|Parent> as calculate_outlines sees it
    stage,               \* schedule position of the frame
    ran,                 \* systems of this plugin that ran in the current stage
    processed,           \* history: entities each recompute pass iterated over in this frame
    changes              \* number of external changes so far

vars == <<components, node_size, style_border, outline, parent, border_color,
          outline_color, visibility, global_transform, clip, ui_stack,
          calculated_border, calculated_outline, extracted_uinodes,
          changed_borders, changed_outlines, stage, ran, processed, changes>>

inputs == <<components, node_size, style_border, outline, parent, border_color,
            outline_color, visibility, global_transform, clip, ui_stack>>

\* ------------------------------------------------- thickness and geometry
\* Color::a() of the colours the model uses.
Alpha(color) == IF color = "NONE" THEN 0 ELSE 1

\* resolve_thickness: parent_width and the result are in model length units.
resolve_thickness(value, parent_width) ==
    CASE value.kind \in {"Auto", "Undefined"} -> 0
      [] value.kind = "Px" -> Unit * value.v
      [] value.kind = "Percent" -> (parent_width * value.v) \div 100

\* A plausible slip: <= in place of <, which keeps zero-area rectangles.
keep_edge_nonstrict(edge) ==
    IF edge.min[1] <= edge.max[1] /\ edge.min[2] <= edge.max[2] THEN {edge} ELSE {}

\* The edge filter of both recompute loops: Some(edge) only for positive area.
keep_edge(edge) ==
    IF edge.min[1] < edge.max[1] /\ edge.min[2] < edge.max[2] THEN {edge} ELSE {}

\* A plausible slip: the .max(inner_min) clamp left out.
unclamped_inner_max(v, inner_min) == v

\* inner_max = (max - (right, bottom)).max(inner_min)
clamp_inner_max(v, inner_min) == Vec2Max(v, inner_min)

\* Node::size() in model length units.
SizeOf(n) == <<Unit * node_size[n][1], Unit * node_size[n][2]>>

\* inner_min and inner_max of calculate_borders, as <<inner_min, inner_max>>.
border_inner_bounds(size, border, parent_width) ==
    LET left == resolve_thickness(border.left, parent_width)
        right == resolve_thickness(border.right, parent_width)
        top == resolve_thickness(border.top, parent_width)
        bottom == resolve_thickness(border.bottom, parent_width)
        max == Vec2Half(size)
        min == Vec2Neg(max)
        inner_min == Vec2Add(min, <<left, top>>)
        inner_max == clamp_inner_max(Vec2Sub(max, <<right, bottom>>), inner_min)
    IN  <<inner_min, inner_max>>

\* border_rects of calculate_borders, each filtered into Some or None.
border_rects(size, border, parent_width) ==
    LET max == Vec2Half(size)
        min == Vec2Neg(max)
        inner_min == border_inner_bounds(size, border, parent_width)[1]
        inner_max == border_inner_bounds(size, border, parent_width)[2]
    IN  << keep_edge(Rect(min, <<inner_min[1], max[2]>>)),
           keep_edge(Rect(<<inner_max[1], min[2]>>, max)),
           keep_edge(Rect(<<inner_min[1], min[2]>>, <<inner_max[1], inner_min[2]>>)),
           keep_edge(Rect(<<inner_min[1], inner_max[2]>>, <<inner_max[1], max[2]>>)) >>

\* A plausible slip: the collapsed-node reset left out.
border_edges_without_reset(size, border, parent_width) ==
    border_rects(size, border, parent_width)

\* Body of the calculate_borders loop for one node, after the parent lookup.
border_edges(size, border, parent_width) ==
    IF size[1] <= 0 \/ size[2] <= 0
    THEN NoEdges
    ELSE border_rects(size, border, parent_width)

\* Body of the calculate_outlines loop for one node, after the parent lookup.
outline_edges(size, spec, parent_width) ==
    LET left == resolve_thickness(spec.left, parent_width)
        right == resolve_thickness(spec.right, parent_width)
        top == resolve_thickness(spec.top, parent_width)
        bottom == resolve_thickness(spec.bottom, parent_width)
        half_size == Vec2Half(size)
        min == Vec2Neg(<<half_size[1] + left, half_size[2] + top>>)
        max == <<half_size[1] + right, half_size[2] + bottom>>
        inner_min == Vec2Add(min, <<left, top>>)
        inner_max == clamp_inner_max(Vec2Sub(max, <<right, bottom>>), inner_min)
    IN  << keep_edge(Rect(min, <<inner_min[1], max[2]>>)),
           keep_edge(Rect(<<inner_max[1], min[2]>>, max)),
           keep_edge(Rect(<<inner_min[1], min[2]>>, <<inner_max[1], inner_min[2]>>)),
           keep_edge(Rect(<<inner_min[1], inner_max[2]>>, <<inner_max[1], max[2]>>)) >>

\* The Children component: an entity has it while some entity names it as parent.
HasChildren(e) == \E c \in Entities : components[c] # {} /\ parent[c] = {e}

\* parent_query: Query<&Node, With<Children>>; get(e) is Ok when e matches.
parent_query_get(e) ==
    IF "Node" \in components[e] /\ HasChildren(e) THEN {SizeOf(e)} ELSE {}

\* A plausible slip: a missing parent falls back to a reference width of
\* one pixel instead of the default handed in.
unwrap_or_reference_width(found, default) ==
    IF found = {} THEN Unit ELSE (CHOOSE s \in found : TRUE)[1]

\* parent.and_then(..get..ok()).map(|p| p.size().x).unwrap_or(0.)
unwrap_or_width(found, default) ==
    IF found = {} THEN default ELSE (CHOOSE s \in found : TRUE)[1]

parent_width_of(n) ==
    unwrap_or_width(UNION {parent_query_get(p) : p \in parent[n]}, 0)

\* A plausible slip: the change filter left out, every border node iterated.
border_query_unfiltered ==
    {n \in Entities : /\ {"Node", "Border"} \subseteq components[n]
                      /\ "CalculatedSize" \notin components[n]}

\* border_query: (&Node, &Style, &mut CalculatedBorder, Option<&Parent>),
\* filtered by Or<(Changed<Node>, Changed<Style>, Changed<Parent>)> and
\* Without<CalculatedSize>.
border_query ==
    {n \in Entities : /\ {"Node", "Border"} \subseteq components[n]
                      /\ "CalculatedSize" \notin components[n]
                      /\ n \in changed_borders}

\* outline_query: (&Node, &Outline, &mut CalculatedOutline, Option<&Parent>),
\* filtered by Or<(Changed<Node>, Changed<Outline>, Changed<Parent>)>.
outline_query ==
    {n \in Entities : /\ {"Node", "Outline"} \subseteq components[n]
                      /\ n \in changed_outlines}

\* ------------------------------------------------------ recompute passes
\* calculate_borders: every node of border_query gets its edges rewritten;
\* running the system consumes its change ticks.
calculate_borders ==
    /\ stage = "PostUpdate"
    /\ "calculate_borders" \notin ran
    /\ calculated_border' =
         [n \in Entities |->
            IF n \in border_query
            THEN border_edges(SizeOf(n), style_border[n], parent_width_of(n))
            ELSE calculated_border[n]]
    /\ changed_borders' = {}
    /\ processed' = [processed EXCEPT !.borders = border_query]
    /\ ran' = ran \cup {"calculate_borders"}
    /\ UNCHANGED <<inputs, calculated_outline, extracted_uinodes,
                   changed_outlines, stage, changes>>

\* calculate_outlines: the same for outline_query.
calculate_outlines ==
    /\ stage = "PostUpdate"
    /\ "calculate_outlines" \notin ran
    /\ calculated_outline' =
         [n \in Entities |->
            IF n \in outline_query
            THEN outline_edges(SizeOf(n), outline[n], parent_width_of(n))
            ELSE calculated_outline[n]]
    /\ changed_outlines' = {}
    /\ processed' = [processed EXCEPT !.outlines = outline_query]
    /\ ran' = ran \cup {"calculate_outlines"}
    /\ UNCHANGED <<inputs, calculated_border, extracted_uinodes,
                   changed_borders, stage, changes>>

\* ------------------------------------------------------------- extraction
\* One ExtractedUiNode.  transform is the translation of
\* global_transform * Mat4::from_translation(rect.center()); rect is
\* Rect { max: rect.size(), ..default }.  The fields pass, entity and edge
\* are history fields: which system pushed the primitive, for which entity
\* and from which index of the edges array.
ExtractedUiNode(pass, stack_index, entity, i, edge_rect, color) ==
    [stack_index |-> stack_index,
     transform |-> Vec2Add(global_transform[entity], RectCenter(edge_rect)),
     color |-> color,
     rect |-> Rect(<<0, 0>>, RectSize(edge_rect)),
     clip |-> clip[entity],
     pass |-> pass, entity |-> entity, edge |-> i]

\* A plausible slip: the edges array walked back to front.
RECURSIVE push_edges_reversed(_, _, _, _, _, _, _)
push_edges_reversed(uinodes, pass, stack_index, entity, edges, color, i) ==
    IF i > 4
    THEN uinodes
    ELSE push_edges_reversed(
           IF edges[5 - i] = {}
           THEN uinodes
           ELSE Append(uinodes,
                       ExtractedUiNode(pass, stack_index, entity, 5 - i,
                                       CHOOSE r \in edges[5 - i] : TRUE, color)),
           pass, stack_index, entity, edges, color, i + 1)

\* for &rect in edges.iter().flatten() { uinodes.push(..) }
RECURSIVE push_edges(_, _, _, _, _, _, _)
push_edges(uinodes, pass, stack_index, entity, edges, color, i) ==
    IF i > 4
    THEN uinodes
    ELSE push_edges(
           IF edges[i] = {}
           THEN uinodes
           ELSE Append(uinodes,
                       ExtractedUiNode(pass, stack_index, entity, i,
                                       CHOOSE r \in edges[i] : TRUE, color)),
           pass, stack_index, entity, edges, color, i + 1)

\* uinode_query.get(entity) of extract_uinode_borders is Ok.
border_uinode_query_get(entity) ==
    /\ {"Node", "Border"} \subseteq components[entity]
    /\ "CalculatedSize" \notin components[entity]

\* uinode_query.get(entity) of extract_uinode_outlines is Ok.
outline_uinode_query_get(entity) ==
    /\ {"Node", "Outline"} \subseteq components[entity]
    /\ "CalculatedSize" \notin components[entity]

\* A plausible slip: only the visibility test, the alpha test left out.
skip_hidden_only(visible, alpha) == ~visible

\* if !visibility.is_visible() || color.a() == 0.0 { continue; }
skip_invisible(visible, alpha) == ~visible \/ alpha = 0

\* A plausible slip: the stack walked back to front.
enumerate_reversed(stack, i) ==
    [stack_index |-> Len(stack) - i, entity |-> stack[Len(stack) + 1 - i]]

\* ui_stack.uinodes.iter().enumerate(): the i-th item (1-based) of the walk.
enumerate_stack(stack, i) == [stack_index |-> i - 1, entity |-> stack[i]]

\* A plausible slip: a stacked entity the query does not know ends the pass
\* (an unwrap or an early return in place of if let Ok).
RECURSIVE extract_borders_until_missing(_, _)
extract_borders_until_missing(uinodes, i) ==
    IF i > Len(ui_stack)
    THEN uinodes
    ELSE LET entity == enumerate_stack(ui_stack, i).entity
             stack_index == enumerate_stack(ui_stack, i).stack_index
         IN  IF ~({"Node", "Border"} \subseteq components[entity]
                  /\ "CalculatedSize" \notin components[entity])
             THEN uinodes
             ELSE IF skip_invisible(visibility[entity], Alpha(border_color[entity]))
             THEN extract_borders_until_missing(uinodes, i + 1)
             ELSE extract_borders_until_missing(
                    push_edges(uinodes, "border", stack_index, entity,
                               calculated_border[entity], border_color[entity], 1),
                    i + 1)

\* The loop of extract_uinode_borders from stack position i (1-based) on.
RECURSIVE extract_borders_from(_, _)
extract_borders_from(uinodes, i) ==
    IF i > Len(ui_stack)
    THEN uinodes
    ELSE LET entity == enumerate_stack(ui_stack, i).entity
             stack_index == enumerate_stack(ui_stack, i).stack_index
         IN  IF ~border_uinode_query_get(entity)
             THEN extract_borders_from(uinodes, i + 1)
             ELSE IF skip_invisible(visibility[entity], Alpha(border_color[entity]))
             THEN extract_borders_from(uinodes, i + 1)
             ELSE extract_borders_from(
                    push_edges(uinodes, "border", stack_index, entity,
                               calculated_border[entity], border_color[entity], 1),
                    i + 1)

\* The loop of extract_uinode_outlines from stack position i (1-based) on.
RECURSIVE extract_outlines_from(_, _)
extract_outlines_from(uinodes, i) ==
    IF i > Len(ui_stack)
    THEN uinodes
    ELSE LET entity == enumerate_stack(ui_stack, i).entity
             stack_index == enumerate_stack(ui_stack, i).stack_index
         IN  IF ~outline_uinode_query_get(entity)
             THEN extract_outlines_from(uinodes, i + 1)
             ELSE IF skip_invisible(visibility[entity], Alpha(outline_color[entity]))
             THEN extract_outlines_from(uinodes, i + 1)
             ELSE extract_outlines_from(
                    push_edges(uinodes, "outline", stack_index, entity,
                               calculated_outline[entity], outline_color[entity], 1),
                    i + 1)

\* The host's node extraction (RenderUiSystem::ExtractNode), which both
\* passes are ordered after: it restarts the list with one primitive per
\* visible stacked node, in stack order.
RECURSIVE host_uinodes_from(_, _)
host_uinodes_from(uinodes, i) ==
    IF i > Len(ui_stack)
    THEN uinodes
    ELSE LET entity == ui_stack[i]
         IN  IF "Node" \in components[entity] /\ visibility[entity]
             THEN host_uinodes_from(
                    Append(uinodes,
                           ExtractedUiNode("node", i - 1, entity, 0,
                                           Rect(Vec2Neg(Vec2Half(SizeOf(entity))),
                                                Vec2Half(SizeOf(entity))),
                                           "BACKGROUND")),
                    i + 1)
             ELSE host_uinodes_from(uinodes, i + 1)

extract_uinode_borders ==
    /\ stage = "Extract"
    /\ "extract_uinode_borders" \notin ran
    /\ extracted_uinodes' = extract_borders_from(extracted_uinodes, 1)
    /\ ran' = ran \cup {"extract_uinode_borders"}
    /\ UNCHANGED <<inputs, calculated_border, calculated_outline,
                   changed_borders, changed_outlines, stage, processed, changes>>

extract_uinode_outlines ==
    /\ stage = "Extract"
    /\ "extract_uinode_outlines" \notin ran
    /\ extracted_uinodes' = extract_outlines_from(extracted_uinodes, 1)
    /\ ran' = ran \cup {"extract_uinode_outlines"}
    /\ UNCHANGED <<inputs, calculated_border, calculated_outline,
                   changed_borders, changed_outlines, stage, processed, changes>>

\* ------------------------------------------------------ the frame schedule
\* UiSystem::Flex has finalised the sizes: PostUpdate reaches the two
\* recompute systems, which are both ordered after it.
FinishLayout ==
    /\ stage = "Update"
    /\ stage' = "PostUpdate"
    /\ ran' = {}
    /\ UNCHANGED <<inputs, calculated_border, calculated_outline, extracted_uinodes,
                   changed_borders, changed_outlines, processed, changes>>

\* The extract schedule starts with the host's node extraction.
ExtractNode ==
    /\ stage = "PostUpdate"
    /\ ran = {"calculate_borders", "calculate_outlines"}
    /\ stage' = "Extract"
    /\ ran' = {}
    /\ extracted_uinodes' = host_uinodes_from(<<>>, 1)
    /\ UNCHANGED <<inputs, calculated_border, calculated_outline,
                   changed_borders, changed_outlines, processed, changes>>

\* The render world has consumed the frame's primitives; the list does not
\* persist into the next frame.
EndFrame ==
    /\ stage = "Extract"
    /\ ran = {"extract_uinode_borders", "extract_uinode_outlines"}
    /\ stage' = "Update"
    /\ ran' = {}
    /\ processed' = [borders |-> {}, outlines |-> {}]
    /\ extracted_uinodes' = <<>>
    /\ UNCHANGED <<inputs, calculated_border, calculated_outline,
                   changed_borders, changed_outlines, changes>>

\* ------------------------------------------------------- external changes
\* What the layout engine and the application do to the inputs during
\* Update, with the change ticks the two recompute queries filter on.
SceneSizes == {<<0, 2>>, <<2, 2>>, <<4, 2>>, <<4, 4>>}

SceneRects ==
    { UiRectDefault,
      UiRectAll(Px(1)),
      UiRect(Percent(50), Auto, Undefined, Undefined),
      UiRect(Px(3), Px(2), Undefined, Px(1)) }

SceneStacks == {<<1, 2, 3>>, <<3, 2, 1>>, <<2, 1>>, <<3>>}

SceneColors == {"NONE", "RED"}

MayChange == stage = "Update" /\ changes < MaxChanges

\* p is n or below n in the hierarchy.
IsInSubtree(p, n) ==
    \/ p = n
    \/ parent[p] = {n}
    \/ \E m \in Entities : parent[p] = {m} /\ parent[m] = {n}

\* Layout writes a new calculated size: Changed<Node>.
SetSize(n, s) ==
    /\ MayChange
    /\ "Node" \in components[n]
    /\ s # node_size[n]
    /\ node_size' = [node_size EXCEPT ![n] = s]
    /\ changed_borders' = changed_borders \cup {n}
    /\ changed_outlines' = changed_outlines \cup {n}
    /\ changes' = changes + 1
    /\ UNCHANGED <<components, style_border, outline, parent, border_color,
                   outline_color, visibility, global_transform, clip, ui_stack,
                   calculated_border, calculated_outline, extracted_uinodes,
                   stage, ran, processed>>

\* The application writes Style::border: Changed<Style>.
SetBorder(n, r) ==
    /\ MayChange
    /\ "Node" \in components[n]
    /\ r # style_border[n]
    /\ style_border' = [style_border EXCEPT ![n] = r]
    /\ changed_borders' = changed_borders \cup {n}
    /\ changes' = changes + 1
    /\ UNCHANGED <<components, node_size, outline, parent, border_color,
                   outline_color, visibility, global_transform, clip, ui_stack,
                   calculated_border, calculated_outline, extracted_uinodes,
                   changed_outlines, stage, ran, processed>>

\* The application writes Outline: Changed<Outline>.
SetOutline(n, r) ==
    /\ MayChange
    /\ "Outline" \in components[n]
    /\ r # outline[n]
    /\ outline' = [outline EXCEPT ![n] = r]
    /\ changed_outlines' = changed_outlines \cup {n}
    /\ changes' = changes + 1
    /\ UNCHANGED <<components, node_size, style_border, parent, border_color,
                   outline_color, visibility, global_transform, clip, ui_stack,
                   calculated_border, calculated_outline, extracted_uinodes,
                   changed_borders, stage, ran, processed>>

\* The node is inserted under (another) parent: Changed<Parent>.
SetParent(n, p) ==
    /\ MayChange
    /\ components[n] # {} /\ components[p] # {}
    /\ parent[n] # {p}
    /\ ~IsInSubtree(p, n)
    /\ parent' = [parent EXCEPT ![n] = {p}]
    /\ changed_borders' = changed_borders \cup {n}
    /\ changed_outlines' = changed_outlines \cup {n}
    /\ changes' = changes + 1
    /\ UNCHANGED <<components, node_size, style_border, outline, border_color,
                   outline_color, visibility, global_transform, clip, ui_stack,
                   calculated_border, calculated_outline, extracted_uinodes,
                   stage, ran, processed>>

\* The Parent component is removed.  Changed<Parent> is a filter on a
\* component the node no longer has, so it does not select the node.
RemoveParent(n) ==
    /\ MayChange
    /\ components[n] # {}
    /\ parent[n] # {}
    /\ parent' = [parent EXCEPT ![n] = {}]
    /\ changes' = changes + 1
    /\ UNCHANGED <<components, node_size, style_border, outline, border_color,
                   outline_color, visibility, global_transform, clip, ui_stack,
                   calculated_border, calculated_outline, extracted_uinodes,
                   changed_borders, changed_outlines, stage, ran, processed>>

SetVisibility(n, b) ==
    /\ MayChange
    /\ "Node" \in components[n]
    /\ b # visibility[n]
    /\ visibility' = [visibility EXCEPT ![n] = b]
    /\ changes' = changes + 1
    /\ UNCHANGED <<components, node_size, style_border, outline, parent,
                   border_color, outline_color, global_transform, clip, ui_stack,
                   calculated_border, calculated_outline, extracted_uinodes,
                   changed_borders, changed_outlines, stage, ran, processed>>

SetBorderColor(n, c) ==
    /\ MayChange
    /\ "Border" \in components[n]
    /\ c # border_color[n]
    /\ border_color' = [border_color EXCEPT ![n] = c]
    /\ changes' = changes + 1
    /\ UNCHANGED <<components, node_size, style_border, outline, parent,
                   outline_color, visibility, global_transform, clip, ui_stack,
                   calculated_border, calculated_outline, extracted_uinodes,
                   changed_borders, changed_outlines, stage, ran, processed>>

SetOutlineColor(n, c) ==
    /\ MayChange
    /\ "Outline" \in components[n]
    /\ c # outline_color[n]
    /\ outline_color' = [outline_color EXCEPT ![n] = c]
    /\ changes' = changes + 1
    /\ UNCHANGED <<components, node_size, style_border, outline, parent,
                   border_color, visibility, global_transform, clip, ui_stack,
                   calculated_border, calculated_outline, extracted_uinodes,
                   changed_borders, changed_outlines, stage, ran, processed>>

\* The entity is despawned on its own: its components are gone while its
\* children's Parent and the paint-order stack still name it.
Despawn(n) ==
    /\ MayChange
    /\ components[n] # {}
    /\ components' = [components EXCEPT ![n] = {}]
    /\ changes' = changes + 1
    /\ UNCHANGED <<node_size, style_border, outline, parent, border_color,
                   outline_color, visibility, global_transform, clip, ui_stack,
                   calculated_border, calculated_outline, extracted_uinodes,
                   changed_borders, changed_outlines, stage, ran, processed>>

\* The UI system rebuilds the paint-order stack.
SetStack(s) ==
    /\ MayChange
    /\ s # ui_stack
    /\ ui_stack' = s
    /\ changes' = changes + 1
    /\ UNCHANGED <<components, node_size, style_border, outline, parent,
                   border_color, outline_color, visibility, global_transform, clip,
                   calculated_border, calculated_outline, extracted_uinodes,
                   changed_borders, changed_outlines, stage, ran, processed>>

\* ---------------------------------------------------------- specifications
\* What every scene starts from: freshly spawned components.  The
\* calculated geometry is CalculatedBorder::default() and
\* CalculatedOutline::default(), and every component counts as changed for
\* a system that has not run yet.
Spawned ==
    /\ border_color = [n \in Entities |-> "RED"]
    /\ outline_color = [n \in Entities |-> "BLUE"]
    /\ visibility = [n \in Entities |-> TRUE]
    /\ global_transform = [n \in Entities |-> <<Unit * 10 * n, Unit * 5>>]
    /\ clip = [n \in Entities |->
                 IF n = 2 THEN {Rect(<<0, 0>>, <<Unit * 8, Unit * 8>>)} ELSE {}]
    /\ ui_stack = <<1, 2, 3>>
    /\ calculated_border = [n \in Entities |-> NoEdges]
    /\ calculated_outline = [n \in Entities |-> NoEdges]
    /\ extracted_uinodes = <<>>
    /\ changed_borders = Entities
    /\ changed_outlines = Entities
    /\ ran = {}
    /\ processed = [borders |-> {}, outlines |-> {}]
    /\ changes = 0

\* A scene of three UI nodes: a root (1) with two children, a bordered and
\* outlined node (2) and a third node (3) that is a plain node or a text
\* node.
Init ==
    /\ Spawned
    /\ stage = "Update"
    /\ \E c3 \in {{"Node"}, {"Node", "Border", "Outline", "CalculatedSize"}} :
         components = [n \in Entities |->
                         IF n = 3 THEN c3 ELSE {"Node", "Border", "Outline"}]
    /\ node_size = [n \in Entities |-> IF n = 1 THEN <<4, 4>> ELSE <<2, 2>>]
    /\ \E b2 \in SceneRects :
         /\ style_border = [n \in Entities |-> IF n = 1 THEN UiRectAll(Px(1)) ELSE
                                               IF n = 2 THEN b2 ELSE UiRectDefault]
         /\ outline = [n \in Entities |-> IF n = 2 THEN b2 ELSE UiRectAll(Px(1))]
    /\ parent = [n \in Entities |-> IF n = 1 THEN {} ELSE {1}]

Next ==
    \/ \E n \in Entities, s \in SceneSizes : SetSize(n, s)
    \/ \E n \in Entities, r \in SceneRects : SetBorder(n, r)
    \/ \E n \in Entities, r \in SceneRects : SetOutline(n, r)
    \/ \E n \in Entities, p \in Entities : SetParent(n, p)
    \/ \E n \in Entities : RemoveParent(n)
    \/ \E n \in Entities, b \in BOOLEAN : SetVisibility(n, b)
    \/ \E n \in Entities, c \in SceneColors : SetBorderColor(n, c)
    \/ \E n \in Entities, c \in SceneColors : SetOutlineColor(n, c)
    \/ \E n \in Entities : Despawn(n)
    \/ \E s \in SceneStacks : SetStack(s)
    \/ FinishLayout
    \/ calculate_borders
    \/ calculate_outlines
    \/ ExtractNode
    \/ extract_uinode_borders
    \/ extract_uinode_outlines
    \/ EndFrame

Spec == Init /\ [][Next]_vars

\* The geometry domain: one node (2) with any size, any thickness spec
\* (used as border and as outline) and any parent situation, right before
\* the two recompute systems run on it for the first time.
GeoSizes == (0 .. MaxSize) \X (0 .. MaxSize)

GeoVals == {Undefined} \cup {Px(v) : v \in -1 .. MaxPx} \cup {Percent(50), Percent(200)}

GeoRects == {UiRect(l, r, t, b) : l \in GeoVals, r \in GeoVals, t \in GeoVals, b \in GeoVals}

GeoParents == {<<"none", 0>>, <<"dangling", 0>>} \cup {<<"width", w>> : w \in 0 .. MaxSize}

InitCalc ==
    /\ Spawned
    /\ stage = "PostUpdate"
    /\ components = [n \in Entities |->
                       IF n = 1 THEN {"Node"} ELSE
                       IF n = 2 THEN {"Node", "Border", "Outline"} ELSE {}]
    /\ \E s \in GeoSizes, pc \in GeoParents :
         /\ node_size = [n \in Entities |->
                           IF n = 2 THEN s ELSE
                           IF n = 1 THEN <<pc[2], 1>> ELSE <<0, 0>>]
         /\ parent = [n \in Entities |->
                        IF n # 2 \/ pc[1] = "none" THEN {} ELSE
                        IF pc[1] = "dangling" THEN {3} ELSE {1}]
    /\ \E r \in GeoRects :
         /\ style_border = [n \in Entities |-> IF n = 2 THEN r ELSE UiRectDefault]
         /\ outline = [n \in Entities |-> IF n = 2 THEN r ELSE UiRectDefault]

NextCalc ==
    \/ calculate_borders
    \/ calculate_outlines

SpecCalc == InitCalc /\ [][NextCalc]_vars

\* The geometry domain without negative thickness values.
NonNegative(r) == \A e \in {"left", "right", "top", "bottom"} : r[e].v >= 0

InitCalcNonNegative ==
    /\ InitCalc
    /\ \A n \in Entities : NonNegative(style_border[n])

SpecCalcNonNegative == InitCalcNonNegative /\ [][NextCalc]_vars

\* ================================================================== claims
Collapsed(n) == node_size[n][1] <= 0 \/ node_size[n][2] <= 0

\* Both recompute systems of the frame have run and nothing has changed since.
AfterRecompute ==
    \/ stage = "Extract"
    \/ stage = "PostUpdate" /\ ran = {"calculate_borders", "calculate_outlines"}

\* The interiors of two rectangles intersect.
Overlap(a, b) ==
    /\ Max2(a.min[1], b.min[1]) < Min2(a.max[1], b.max[1])
    /\ Max2(a.min[2], b.min[2]) < Min2(a.max[2], b.max[2])

TheRect(edge) == CHOOSE r \in edge : TRUE

C3_NoOverlap ==
    \A n \in Entities : \A i \in 1 .. 4 : \A j \in 1 .. 4 :
        i < j =>
            /\ calculated_border[n][i] # {} /\ calculated_border[n][j] # {}
                 => ~Overlap(TheRect(calculated_border[n][i]),
                             TheRect(calculated_border[n][j]))
            /\ calculated_outline[n][i] # {} /\ calculated_outline[n][j] # {}
                 => ~Overlap(TheRect(calculated_outline[n][i]),
                             TheRect(calculated_outline[n][j]))

\* Border Recompute stored a Left and a Right edge for a node whose left and
\* right thickness together exceed its width, and Outline Recompute stored
\* all four outline edges of a node.
C3_Witness ==
    /\ \E n \in processed.borders :
         /\ calculated_border[n][1] # {} /\ calculated_border[n][2] # {}
         /\ resolve_thickness(style_border[n].left, parent_width_of(n))
              + resolve_thickness(style_border[n].right, parent_width_of(n))
              > SizeOf(n)[1]
    /\ \E n \in processed.outlines : \A i \in 1 .. 4 : calculated_outline[n][i] # {}

\* The x-interval (axis 1) or y-interval (axis 2) an optional edge covers;
\* a None edge covers the empty interval at the box bound it starts from.
EdgeSpan(edge, axis, at) ==
    IF edge = {} THEN <<at, at>> ELSE <<TheRect(edge).min[axis], TheRect(edge).max[axis]>>

\* The low and the high edge of an axis tile [lo, hi]: no gap, no overlap,
\* nothing beyond the box.
Tiles(lowEdge, highEdge, axis, lo, hi) ==
    LET a == EdgeSpan(lowEdge, axis, lo)
        b == EdgeSpan(highEdge, axis, hi)
    IN  a[1] = lo /\ a[2] = b[1] /\ b[2] = hi /\ lo <= a[2] /\ a[2] <= hi

\* C4: on a box of positive size with resolved left + right >= width, Border
\* Recompute makes the inner x-span a single line and the Left and Right
\* edges tile [boxMin.x, boxMax.x] exactly; the same for top + bottom >=
\* height on the y axis.
C4_CollapsedAxisTiles ==
    \A n \in processed.borders :
        ~Collapsed(n) =>
            LET pw == parent_width_of(n)
                b == style_border[n]
                inner == border_inner_bounds(SizeOf(n), b, pw)
                max == Vec2Half(SizeOf(n))
                min == Vec2Neg(max)
            IN  /\ resolve_thickness(b.left, pw) + resolve_thickness(b.right, pw) >= SizeOf(n)[1]
                     => /\ inner[1][1] = inner[2][1]
                        /\ Tiles(calculated_border[n][1], calculated_border[n][2],
                                 1, min[1], max[1])
                /\ resolve_thickness(b.top, pw) + resolve_thickness(b.bottom, pw) >= SizeOf(n)[2]
                     => /\ inner[1][2] = inner[2][2]
                        /\ Tiles(calculated_border[n][3], calculated_border[n][4],
                                 2, min[2], max[2])

\* A border node the border systems manage (text and image nodes, which
\* carry CalculatedSize, are left out by both border queries).
BorderNode(n) ==
    {"Node", "Border"} \subseteq components[n] /\ "CalculatedSize" \notin components[n]

OutlineNode(n) == {"Node", "Outline"} \subseteq components[n]

\* C2: once the recompute passes of a frame have run, every node's stored
\* geometry equals the edge decomposition of its current box size, current
\* thickness spec and current parent width.
C2_GeometryCurrent ==
    AfterRecompute =>
        \A n \in Entities :
            /\ BorderNode(n) =>
                 calculated_border[n] =
                     border_edges(SizeOf(n), style_border[n], parent_width_of(n))
            /\ OutlineNode(n) =>
                 calculated_outline[n] =
                     outline_edges(SizeOf(n), outline[n], parent_width_of(n))

\* The primitives of one pass, in list order.
PassNodes(pass) == SelectSeq(extracted_uinodes, LAMBDA u : u.pass = pass)

\* How many primitives of a pass carry a stack index.
CountAt(pass, stack_index) ==
    Cardinality({k \in 1 .. Len(extracted_uinodes) :
                   /\ extracted_uinodes[k].pass = pass
                   /\ extracted_uinodes[k].stack_index = stack_index})

SomeEdges(edges) == {j \in 1 .. 4 : edges[j] # {}}

BordersExtracted == "extract_uinode_borders" \in ran
OutlinesExtracted == "extract_uinode_outlines" \in ran

\* C5: a stacked node that is not visible or whose colour alpha is zero
\* contributes no primitive, whatever its stored geometry; every other
\* stacked node with the required components contributes exactly one
\* primitive per non-None edge.
C5_CulledOrOnePerEdge ==
    \A i \in 1 .. Len(ui_stack) :
        LET e == ui_stack[i]
        IN  /\ BordersExtracted =>
                 CountAt("border", i - 1) =
                     IF ~BorderNode(e) \/ ~visibility[e] \/ Alpha(border_color[e]) = 0
                     THEN 0
                     ELSE Cardinality(SomeEdges(calculated_border[e]))
            /\ OutlinesExtracted =>
                 CountAt("outline", i - 1) =
                     IF ~(OutlineNode(e) /\ "CalculatedSize" \notin components[e])
                        \/ ~visibility[e] \/ Alpha(outline_color[e]) = 0
                     THEN 0
                     ELSE Cardinality(SomeEdges(calculated_outline[e]))

\* Border extraction ran over a stack that holds a node with stored border
\* edges that is hidden or has a transparent border colour, and a visible
\* node that contributed primitives.
C5_Witness ==
    /\ BordersExtracted
    /\ \E i \in 1 .. Len(ui_stack) :
         /\ BorderNode(ui_stack[i])
         /\ ~visibility[ui_stack[i]] \/ Alpha(border_color[ui_stack[i]]) = 0
         /\ SomeEdges(calculated_border[ui_stack[i]]) # {}
    /\ \E i \in 1 .. Len(ui_stack) : CountAt("border", i - 1) > 1

\* The primitives of one pass are in paint order, carry their node's stack
\* position and, for one node, follow the edge order Left, Right, Top, Bottom.
InPaintOrder(pass, edgesOf) ==
    LET us == PassNodes(pass)
    IN  /\ \A k \in 1 .. Len(us) :
             /\ us[k].stack_index + 1 \in 1 .. Len(ui_stack)
             /\ ui_stack[us[k].stack_index + 1] = us[k].entity
             /\ edgesOf[us[k].entity][us[k].edge] # {}
             /\ us[k].rect.max = RectSize(TheRect(edgesOf[us[k].entity][us[k].edge]))
        /\ \A k \in 1 .. Len(us) : \A l \in 1 .. Len(us) :
             k < l =>
                 \/ us[k].stack_index < us[l].stack_index
                 \/ us[k].stack_index = us[l].stack_index /\ us[k].edge < us[l].edge

\* C6: within one extraction pass the primitives preserve paint order, each
\* stack index is its node's position in the stack, and one node's
\* primitives are in the edge order Left, Right, Top, Bottom.
C6_PaintOrder ==
    /\ BordersExtracted => InPaintOrder("border", calculated_border)
    /\ OutlinesExtracted => InPaintOrder("outline", calculated_outline)

\* Border extraction emitted primitives for two stacked nodes, several for
\* the later one.
C6_Witness ==
    /\ BordersExtracted
    /\ \E i \in 1 .. Len(ui_stack) : \E j \in 1 .. Len(ui_stack) :
         i < j /\ CountAt("border", i - 1) > 0 /\ CountAt("border", j - 1) > 1

BothExtracted == ran = {"extract_uinode_borders", "extract_uinode_outlines"}

\* C7, as stated: once both extraction passes of a frame have run, the
\* stack indices of the shared list never decrease from front to back.
C7_WholeListInStackOrder ==
    BothExtracted =>
        \A k \in 1 .. Len(extracted_uinodes) : \A l \in 1 .. Len(extracted_uinodes) :
            k < l => extracted_uinodes[k].stack_index <= extracted_uinodes[l].stack_index

\* C7, amended: each pass appends its primitives as one block behind what
\* the list already holds (the host's node primitives first), and within
\* the block of one pass the stack indices never decrease.
C7_BlocksInStackOrder ==
    \A k \in 1 .. Len(extracted_uinodes) : \A l \in 1 .. Len(extracted_uinodes) :
        k < l =>
            /\ extracted_uinodes[l].pass = "node" => extracted_uinodes[k].pass = "node"
            /\ extracted_uinodes[k].pass = extracted_uinodes[l].pass =>
                 /\ extracted_uinodes[k].stack_index <= extracted_uinodes[l].stack_index
                 /\ \A m \in k .. l : extracted_uinodes[m].pass = extracted_uinodes[k].pass

\* Both passes ran and each appended primitives for two stack positions
\* behind the host's primitives.
C7_Witness ==
    /\ BothExtracted
    /\ Len(PassNodes("node")) > 1
    /\ \E i \in 1 .. Len(ui_stack) : \E j \in 1 .. Len(ui_stack) :
         /\ i < j
         /\ CountAt("border", i - 1) > 0 /\ CountAt("border", j - 1) > 0
         /\ CountAt("outline", i - 1) > 0 /\ CountAt("outline", j - 1) > 0

\* C8: resolve_thickness returns a length >= 0 for every thickness value
\* attached to an edge and every parent width: the fixed length, parent
\* width * percent / 100, or 0.
C8_ThicknessNonNegative ==
    \A n \in Entities : \A e \in {"left", "right", "top", "bottom"} :
        \A value \in {style_border[n][e], outline[n][e]} :
            LET t == resolve_thickness(value, parent_width_of(n))
            IN  /\ t >= 0
                /\ value.kind = "Px" => t = Unit * value.v
                /\ value.kind = "Percent" => t * 100 = parent_width_of(n) * value.v
                /\ value.kind \in {"Auto", "Undefined"} => t = 0

\* The parent lookup of a node finds no node with box data.
ParentUnresolved(n) ==
    \A p \in parent[n] : ~("Node" \in components[p] /\ HasChildren(p))

\* A thickness spec with its percentage edges taken out.
WithoutPercent(r) ==
    [e \in {"left", "right", "top", "bottom"} |->
        IF r[e].kind = "Percent" THEN Undefined ELSE r[e]]

EdgeIndex(e) == CHOOSE i \in 1 .. 4 : EdgeNames[i] = e

\* C9: for a node without a parent, or with a parent reference that does
\* not resolve, recompute stores None for every percentage edge and stores
\* the fixed-length edges as if the percentage edges were not specified.
C9_MissingParentIsZeroWidth ==
    \A n \in Entities :
        ParentUnresolved(n) =>
            /\ n \in processed.borders =>
                 /\ \A e \in {"left", "right", "top", "bottom"} :
                      style_border[n][e].kind = "Percent"
                          => calculated_border[n][EdgeIndex(e)] = {}
                 /\ calculated_border[n] =
                      border_edges(SizeOf(n), WithoutPercent(style_border[n]), Unit)
            /\ n \in processed.outlines =>
                 /\ \A e \in {"left", "right", "top", "bottom"} :
                      outline[n][e].kind = "Percent"
                          => calculated_outline[n][EdgeIndex(e)] = {}
                 /\ calculated_outline[n] =
                      outline_edges(SizeOf(n), WithoutPercent(outline[n]), Unit)

\* A node with a dangling parent reference, a percentage left edge and a
\* fixed right edge went through both recompute passes: no Left edge, a
\* Right edge, for border and outline.
C9_Witness ==
    \E n \in processed.borders \cap processed.outlines :
        /\ \E p \in parent[n] : components[p] = {}
        /\ style_border[n].left.kind = "Percent" /\ style_border[n].right = Px(1)
        /\ outline[n].left.kind = "Percent" /\ outline[n].right = Px(1)
        /\ calculated_border[n][1] = {} /\ calculated_border[n][2] # {}
        /\ calculated_outline[n][1] = {} /\ calculated_outline[n][2] # {}

\* What one entity at one stack position emits on its own: nothing when it
\* is culled, else one primitive per Some edge in array order.
OwnNodes(pass, stack_index, entity, edges, color) ==
    IF ~visibility[entity] \/ Alpha(color) = 0
    THEN <<>>
    ELSE [k \in 1 .. Cardinality(SomeEdges(edges)) |->
            LET j == CHOOSE j \in SomeEdges(edges) :
                        Cardinality({h \in SomeEdges(edges) : h <= j}) = k
            IN  ExtractedUiNode(pass, stack_index, entity, j, TheRect(edges[j]), color)]

NodesAt(pass, stack_index) ==
    SelectSeq(extracted_uinodes,
              LAMBDA u : u.pass = pass /\ u.stack_index = stack_index)

\* C10: a stacked entity without geometry, colour or visibility data emits
\* nothing, and every other stacked entity emits, under its own stack
\* position, exactly what it emits on its own.
C10_DanglingSkipped ==
    \A i \in 1 .. Len(ui_stack) :
        LET e == ui_stack[i]
        IN  /\ BordersExtracted =>
                 NodesAt("border", i - 1) =
                     IF BorderNode(e)
                     THEN OwnNodes("border", i - 1, e, calculated_border[e], border_color[e])
                     ELSE <<>>
            /\ OutlinesExtracted =>
                 NodesAt("outline", i - 1) =
                     IF OutlineNode(e) /\ "CalculatedSize" \notin components[e]
                     THEN OwnNodes("outline", i - 1, e, calculated_outline[e], outline_color[e])
                     ELSE <<>>

\* Both passes ran over a stack whose first entity was despawned, and a
\* later entity contributed border and outline primitives.
C10_Witness ==
    /\ BothExtracted
    /\ Len(ui_stack) > 1
    /\ components[ui_stack[1]] = {}
    /\ \E j \in 2 .. Len(ui_stack) :
         CountAt("border", j - 1) > 0 /\ CountAt("outline", j - 1) > 0

\* The step is a run of the named recompute system.
RunsSystem(name) == name \notin ran /\ name \in ran'

\* C11: a recompute pass leaves the stored geometry of every node without a
\* change of size, thickness spec or parent since the previous pass as it
\* was (so a pass with no change at all rewrites nothing), and a Border pass
\* never writes outline geometry nor an Outline pass border geometry.
C11_UnchangedRetained ==
    [][ /\ RunsSystem("calculate_borders") =>
             /\ \A n \in Entities \ changed_borders :
                    calculated_border'[n] = calculated_border[n]
             /\ calculated_outline' = calculated_outline
        /\ RunsSystem("calculate_outlines") =>
             /\ \A n \in Entities \ changed_outlines :
                    calculated_outline'[n] = calculated_outline[n]
             /\ calculated_border' = calculated_border ]_vars

\* A Border pass has iterated over one changed node and left alone another
\* border node that holds edges from an earlier pass.
C11_Witness ==
    /\ stage = "PostUpdate"
    /\ "calculate_borders" \in ran
    /\ processed.borders # {}
    /\ \E n \in Entities \ processed.borders :
         BorderNode(n) /\ calculated_border[n] # NoEdges

\* Some(rect) when the rectangle has positive width and height, else None.
RingEdge(x0, y0, x1, y1) ==
    IF x0 < x1 /\ y0 < y1 THEN {Rect(<<x0, y0>>, <<x1, y1>>)} ELSE {}

\* The reference ring of a w x h box centred on the origin with edge
\* thicknesses l, r, t, b: Left and Right over the full height, Top and
\* Bottom between them.
ReferenceRing(w, h, l, r, t, b) ==
    << RingEdge(0 - w \div 2, 0 - h \div 2, 0 - w \div 2 + l, h \div 2),
       RingEdge(w \div 2 - r, 0 - h \div 2, w \div 2, h \div 2),
       RingEdge(0 - w \div 2 + l, 0 - h \div 2, w \div 2 - r, 0 - h \div 2 + t),
       RingEdge(0 - w \div 2 + l, h \div 2 - b, w \div 2 - r, h \div 2) >>

EdgeArea(edge) ==
    IF edge = {} THEN 0 ELSE RectSize(TheRect(edge))[1] * RectSize(TheRect(edge))[2]

\* The scene of examples/minimal.rs: 100 x 100 with 10 on all edges, no parent.
MinimalExampleEdges ==
    border_edges(<<Unit * 100, Unit * 100>>, UiRectAll(Px(10)), 0)

\* C12: for a box of positive size and non-negative resolved thicknesses
\* with left + right <= width and top + bottom <= height, Border Recompute
\* stores the reference ring: Left and Right over the full height, Top and
\* Bottom between them, an edge None exactly when its thickness is 0 or its
\* span is empty, the areas adding up to the box minus the inner rectangle;
\* 100 x 100 with 10 on all edges gives Left x in [-50, -40], Right x in
\* [40, 50], Top and Bottom x in [-40, 40].
C12_ReferenceRing ==
    /\ \A n \in processed.borders :
         LET pw == parent_width_of(n)
             w == SizeOf(n)[1]
             h == SizeOf(n)[2]
             l == resolve_thickness(style_border[n].left, pw)
             r == resolve_thickness(style_border[n].right, pw)
             t == resolve_thickness(style_border[n].top, pw)
             b == resolve_thickness(style_border[n].bottom, pw)
             edges == calculated_border[n]
         IN  (w > 0 /\ h > 0 /\ l >= 0 /\ r >= 0 /\ t >= 0 /\ b >= 0
                /\ l + r <= w /\ t + b <= h)
             => /\ edges = ReferenceRing(w, h, l, r, t, b)
                /\ edges[1] = {} <=> l = 0
                /\ edges[2] = {} <=> r = 0
                /\ edges[3] = {} <=> (t = 0 \/ l + r = w)
                /\ edges[4] = {} <=> (b = 0 \/ l + r = w)
                /\ EdgeArea(edges[1]) + EdgeArea(edges[2]) + EdgeArea(edges[3])
                     + EdgeArea(edges[4]) = w * h - (w - l - r) * (h - t - b)
    /\ MinimalExampleEdges =
         << {Rect(<<0 - 50 * Unit, 0 - 50 * Unit>>, <<0 - 40 * Unit, 50 * Unit>>)},
            {Rect(<<40 * Unit, 0 - 50 * Unit>>, <<50 * Unit, 50 * Unit>>)},
            {Rect(<<0 - 40 * Unit, 0 - 50 * Unit>>, <<40 * Unit, 0 - 40 * Unit>>)},
            {Rect(<<0 - 40 * Unit, 40 * Unit>>, <<40 * Unit, 50 * Unit>>)} >>

\* Border Recompute stored four edges of different thicknesses for a node
\* whose border fits in its box with room to spare on both axes.
C12_Witness ==
    \E n \in processed.borders :
        LET pw == parent_width_of(n)
            l == resolve_thickness(style_border[n].left, pw)
            r == resolve_thickness(style_border[n].right, pw)
            t == resolve_thickness(style_border[n].top, pw)
            b == resolve_thickness(style_border[n].bottom, pw)
        IN  /\ l > 0 /\ r > l /\ t > 0 /\ b > t
            /\ l + r < SizeOf(n)[1] /\ t + b < SizeOf(n)[2]
            /\ \A i \in 1 .. 4 : calculated_border[n][i] # {}
====
